---------------------------- MODULE Spec2Model ----------------------------
(***************************************************************************)
(* A model of the music core of diato (src/src/music): the static key      *)
(* table, the chord builder and the key matcher, driven by a caller that   *)
(* builds a selection of chords and calls findMatchingKeys on it.          *)
(*                                                                         *)
(* Notes are the strings of the source; the flat sign U+266D of the source *)
(* is written "b" here ("Bb" is B flat), the sharp sign is "#" as in the   *)
(* source.  Notes are compared as strings, exactly as the source does with *)
(* ===.                                                                    *)
(***************************************************************************)
EXTENDS Integers, Sequences, FiniteSets, TLC

VARIABLES
  selection,      \* the Chord[] the caller passes to findMatchingKeys
  results,        \* what the last call of findMatchingKeys returned
  pc,             \* "input": a call is due; "returned": the call has returned
  variation,      \* how `selection` was derived from prevSelection
  prevSelection,  \* the selection of the call before the variation
  prevResults,    \* what that earlier call returned
  keyArg,         \* the Key a caller passes to buildScale, buildDiatonicChords
  scaleOut,       \* what buildScale(keyArg.tonic, keyArg.mode) returned
  chordsOut,      \* what buildDiatonicChords(keyArg) returned
  keysOut,        \* what getAllKeys() returned
  triadsOut,      \* what buildAllTriads() returned
  intervalScaleOut, \* what the interval-based buildScale returned
  done,           \* the functions of the library called so far
  selectedByKey,  \* App state: the chords selected in the By Key view
  selectedFree,   \* App state: the chords selected in the Free view
  viewMode,       \* App state: "byKey" or "free"
  selectorTonic,  \* App state: the tonic selected on the circle
  selectorMode,   \* App state: the mode selected on the circle
  hist,           \* the last chord clicked, how often in a row, and the
                  \* selection before the first of these clicks
  played,         \* the notes the last chip click passed to
                  \* PianoPlayer.playChord, <<>> when it made no such call
  scaleWrites,    \* the writes callers made into scale arrays of the table
  heldKeys,       \* the key array a caller holds: references to table keys
  player,         \* the private fields of the PianoPlayerClass instance
  browser,        \* what the browser holds for the player: the document's
                  \* visibility, the state of the AudioContext, the pending
                  \* timeouts and promise settlements, and the
                  \* continuations awaiting the instrument
  heard           \* history: the chords started, the chords sounding, the
                  \* sequences requested and cancelled, the calls made

\* The state of a caller of findMatchingKeys.
vars == <<selection, results, pc, variation, prevSelection, prevResults>>

\* The state of a caller of the other functions of logic.ts.
libVars ==
  <<keyArg, scaleOut, chordsOut, keysOut, triadsOut, intervalScaleOut, done>>

\* The state of the App component.
appVars ==
  <<selectedByKey, selectedFree, viewMode, selectorTonic, selectorMode, hist,
    played>>

\* The key objects of the table as callers have left them, and the array of
\* them a caller holds.
heapVars == <<scaleWrites, heldKeys>>

\* The state of the piano player and of the browser around it.
playerVars == <<player, browser, heard>>

allVars == <<vars, libVars, appVars, heapVars, playerVars>>

(***************************************************************************)
(* Bounds of the model.                                                    *)
(***************************************************************************)
\* The largest number of distinct chords of an initial selection.
MaxSel == 2

\* The longest scale array a caller attaches to a key argument.
MaxScaleLen == 8

\* The chips of the By Key view the user clicks: those of degree 1..MaxChips.
MaxChips == 2

\* The number of chips of the Free view the user clicks.
MaxTriads == 2

\* The sectors of each ring of the circle the user clicks: the first
\* MaxTonics of MAJOR_TONICS_ORDER and of MINOR_TONICS_ORDER.
MaxTonics == 2

\* The largest number of notes a caller overwrites in scale arrays of keys.
MaxWrites == 2

\* The largest number of inputs of the player: the calls of its methods and
\* the changes of the document's visibility.
MaxInputs == 3

\* The largest number of chords of a sequence passed to playSequence.
MaxChords == 2

\* The milliseconds of a tick of the model's clock.
TickMs == 1000

Range(s) == {s[i] : i \in 1..Len(s)}

(***************************************************************************)
(* types.ts: Mode, the chord qualities.                                    *)
(***************************************************************************)
Modes == {"Ionian", "Aeolian"}

Qualities == <<"major", "minor", "diminished">>

(***************************************************************************)
(* keys.ts: the explicit list of the 24 allowed keys.                      *)
(***************************************************************************)
Key(tonic, mode, scale) == [tonic |-> tonic, mode |-> mode, scale |-> scale]

ALLOWED_KEYS ==
  << Key("C",  "Ionian", <<"C", "D", "E", "F", "G", "A", "B">>),
     Key("G",  "Ionian", <<"G", "A", "B", "C", "D", "E", "F#">>),
     Key("D",  "Ionian", <<"D", "E", "F#", "G", "A", "B", "C#">>),
     Key("A",  "Ionian", <<"A", "B", "C#", "D", "E", "F#", "G#">>),
     Key("E",  "Ionian", <<"E", "F#", "G#", "A", "B", "C#", "D#">>),
     Key("B",  "Ionian", <<"B", "C#", "D#", "E", "F#", "G#", "A#">>),
     Key("F#", "Ionian", <<"F#", "G#", "A#", "B", "C#", "D#", "E#">>),
     Key("C#", "Ionian", <<"C#", "D#", "E#", "F#", "G#", "A#", "B#">>),
     Key("F",  "Ionian", <<"F", "G", "A", "Bb", "C", "D", "E">>),
     Key("Bb", "Ionian", <<"Bb", "C", "D", "Eb", "F", "G", "A">>),
     Key("Eb", "Ionian", <<"Eb", "F", "G", "Ab", "Bb", "C", "D">>),
     Key("Ab", "Ionian", <<"Ab", "Bb", "C", "Db", "Eb", "F", "G">>),
     Key("A",  "Aeolian", <<"A", "B", "C", "D", "E", "F", "G">>),
     Key("E",  "Aeolian", <<"E", "F#", "G", "A", "B", "C", "D">>),
     Key("B",  "Aeolian", <<"B", "C#", "D", "E", "F#", "G", "A">>),
     Key("F#", "Aeolian", <<"F#", "G#", "A", "B", "C#", "D", "E">>),
     Key("C#", "Aeolian", <<"C#", "D#", "E", "F#", "G#", "A", "B">>),
     Key("G#", "Aeolian", <<"G#", "A#", "B", "C#", "D#", "E", "F#">>),
     Key("D#", "Aeolian", <<"D#", "E#", "F#", "G#", "A#", "B", "C#">>),
     Key("A#", "Aeolian", <<"A#", "B#", "C#", "D#", "E#", "F#", "G#">>),
     Key("D",  "Aeolian", <<"D", "E", "F", "G", "A", "Bb", "C">>),
     Key("G",  "Aeolian", <<"G", "A", "Bb", "C", "D", "Eb", "F">>),
     Key("C",  "Aeolian", <<"C", "D", "Eb", "F", "G", "Ab", "Bb">>),
     Key("F",  "Aeolian", <<"F", "G", "Ab", "Bb", "C", "Db", "Eb">>) >>

\* Faulty variant of getAllAllowedKeys: the copy spells the second degree of
\* A# Aeolian "C" instead of "B#".
getAllAllowedKeys_respelt == [ALLOWED_KEYS EXCEPT ![20].scale[2] = "C"]

\* Faulty variant of getAllAllowedKeys: the copy spells the seventh degree of
\* F# Ionian "F" instead of "E#".
getAllAllowedKeys_repeatedLetter == [ALLOWED_KEYS EXCEPT ![7].scale[7] = "F"]

\* ALLOWED_KEYS.slice(): a copy with the same elements in the same order.
getAllAllowedKeys == ALLOWED_KEYS

\* keys.ts: the tonic lists of the circle of fifths, and their copies.
\* Faulty variant of MAJOR_TONICS_ORDER: the second sector is spelled Gb.
MAJOR_TONICS_ORDER_enharmonic ==
  <<"C", "Gb", "D", "A", "E", "B", "F#", "C#", "Ab", "Eb", "Bb", "F">>

MAJOR_TONICS_ORDER ==
  <<"C", "G", "D", "A", "E", "B", "F#", "C#", "Ab", "Eb", "Bb", "F">>

MINOR_TONICS_ORDER ==
  <<"A", "E", "B", "F#", "C#", "G#", "D#", "A#", "F", "C", "G", "D">>

getMajorTonics == MAJOR_TONICS_ORDER

getMinorTonics == MINOR_TONICS_ORDER

(***************************************************************************)
(* logic.ts: buildScale, buildDiatonicChords, getAllKeys.                  *)
(***************************************************************************)
\* Faulty variant of buildScale: the mode is not compared.
buildScale_anyMode(tonic, mode) ==
  LET keys  == getAllAllowedKeys
      hits  == {i \in 1..Len(keys) : keys[i].tonic = tonic}
      found == CHOOSE i \in hits : \A j \in hits : i <= j
  IN  IF hits = {} THEN <<>> ELSE keys[found].scale

\* buildScale reading the key objects as they are at the time of the call:
\* keys.find(k => k.tonic === tonic && k.mode === mode): the first such key;
\* found?.scale ? found.scale.slice() : [].
buildScaleIn(allowed, tonic, mode) ==
  LET keys  == allowed
      hits  == {i \in 1..Len(keys) : keys[i].tonic = tonic /\ keys[i].mode = mode}
      found == CHOOSE i \in hits : \A j \in hits : i <= j
  IN  IF hits = {} THEN <<>>
      ELSE IF "scale" \in DOMAIN keys[found] /\ keys[found].scale # <<>>
           THEN keys[found].scale
           ELSE <<>>

\* buildScale as long as no caller has written into the table.
buildScale(tonic, mode) == buildScaleIn(getAllAllowedKeys, tonic, mode)

\* Faulty variant of qualities: the Aeolian pattern takes the major chord of
\* the harmonic minor on degree 5.
qualities_harmonicMinor(mode) ==
  IF mode = "Ionian"
  THEN <<"major", "minor", "minor", "major", "major", "minor", "diminished">>
  ELSE <<"minor", "diminished", "major", "minor", "major", "major", "major">>

\* The fixed quality pattern of a mode (every mode but "Ionian" takes the
\* second pattern).
qualities(mode) ==
  IF mode = "Ionian"
  THEN <<"major", "minor", "minor", "major", "major", "minor", "diminished">>
  ELSE <<"minor", "diminished", "major", "minor", "minor", "major", "major">>

Chord(root, mode, degree, quality) ==
  [root |-> root, mode |-> mode, degree |-> degree, quality |-> quality]

\* Faulty variant of buildDiatonicChords: the degree is the array index.
buildDiatonicChords_zeroBasedDegree(key) ==
  LET scale == IF "scale" \in DOMAIN key /\ Len(key.scale) = 7
               THEN key.scale
               ELSE buildScale(key.tonic, key.mode)
  IN  [i \in 1..Len(scale) |->
         Chord(scale[i], key.mode, i - 1, qualities(key.mode)[i])]

\* A key object may lack the optional field scale (types: scale?: Note[]).
buildDiatonicChords(key) ==
  LET scale == IF "scale" \in DOMAIN key /\ Len(key.scale) = 7
               THEN key.scale
               ELSE buildScale(key.tonic, key.mode)
  IN  [i \in 1..Len(scale) |->
         Chord(scale[i], key.mode, i, qualities(key.mode)[i])]

\* Faulty variant of getAllKeys: only the major keys.
getAllKeys_ionianOnly == SubSeq(getAllAllowedKeys, 1, 12)

\* Faulty variant of getAllKeys: the keys in the order of the tonic lists of
\* the circle of fifths.
getAllKeys_tonicsOrder ==
  [i \in 1..24 |->
     LET tonic == IF i <= 12 THEN MAJOR_TONICS_ORDER[i]
                  ELSE MINOR_TONICS_ORDER[i - 12]
         mode  == IF i <= 12 THEN "Ionian" ELSE "Aeolian"
     IN  CHOOSE k \in Range(getAllAllowedKeys) :
           k.tonic = tonic /\ k.mode = mode]

getAllKeys == getAllAllowedKeys

(***************************************************************************)
(* logic.ts, the earlier functions kept in the file: NOTES,                *)
(* SCALE_INTERVALS, transpose and the interval-based buildScale.           *)
(***************************************************************************)
NOTES ==
  <<"C", "C#", "D", "D#", "E", "F", "F#", "G", "G#", "A", "A#", "B">>

\* Faulty variant of SCALE_INTERVALS: the minor scale has a raised sixth.
SCALE_INTERVALS_raisedSixth(mode) ==
  IF mode = "Ionian" THEN <<2, 2, 1, 2, 2, 2, 1>> ELSE <<2, 1, 2, 2, 2, 1, 2>>

\* SCALE_INTERVALS[mode], for the two modes it has an entry for.
SCALE_INTERVALS(mode) ==
  IF mode = "Ionian" THEN <<2, 2, 1, 2, 2, 2, 1>> ELSE <<2, 1, 2, 2, 1, 2, 2>>

\* array.indexOf(x): the first index, counted from 0, or -1.
indexOf(array, x) ==
  LET hits == {i \in 1..Len(array) : array[i] = x}
  IN  IF hits = {} THEN -1 ELSE (CHOOSE i \in hits : \A j \in hits : i <= j) - 1

\* NOTES[(NOTES.indexOf(root) + semitones + 12) % 12].
transpose(root, semitones) ==
  NOTES[((indexOf(NOTES, root) + semitones + 12) % 12) + 1]

\* The interval-based buildScale: the tonic, then six times the note
\* transposed by the next interval.
intervalBuildScale(tonic, mode) ==
  LET intervals == SCALE_INTERVALS(mode)
      scale[i \in 1..7] ==
        IF i = 1 THEN tonic ELSE transpose(scale[i - 1], intervals[i - 1])
  IN  [i \in 1..7 |-> scale[i]]

(***************************************************************************)
(* logic.ts: buildAllTriads.                                               *)
(***************************************************************************)
\* One loop of buildAllTriads: for each tonic in order, the key of that
\* tonic and mode is looked up (allowed.find); without a key or a scale the
\* tonic is skipped, else the chord on scale[degree - 1] is pushed.
RECURSIVE triadsOfLoop(_, _, _, _)
triadsOfLoop(tonics, mode, degree, quality) ==
  IF tonics = <<>> THEN <<>>
  ELSE LET allowed == getAllAllowedKeys
           hits    == {i \in 1..Len(allowed) :
                         allowed[i].tonic = Head(tonics)
                           /\ allowed[i].mode = mode}
           found   == CHOOSE i \in hits : \A j \in hits : i <= j
           pushed  ==
             IF hits = {} \/ "scale" \notin DOMAIN allowed[found]
             THEN <<>>
             ELSE <<Chord(allowed[found].scale[degree], mode, degree, quality)>>
       IN  pushed \o triadsOfLoop(Tail(tonics), mode, degree, quality)

\* Faulty variant of buildAllTriads: the diminished triads are taken from
\* degree 7 of the Aeolian keys.
buildAllTriads_minorSevenths ==
  triadsOfLoop(getMajorTonics, "Ionian", 1, "major")
    \o triadsOfLoop(getMinorTonics, "Aeolian", 1, "minor")
    \o triadsOfLoop(getMinorTonics, "Aeolian", 7, "diminished")

buildAllTriads ==
  triadsOfLoop(getMajorTonics, "Ionian", 1, "major")
    \o triadsOfLoop(getMinorTonics, "Aeolian", 1, "minor")
    \o triadsOfLoop(getMajorTonics, "Ionian", 7, "diminished")

(***************************************************************************)
(* KeyResults.tsx: the notes a click on a chord chip of a result plays.    *)
(***************************************************************************)
\* Faulty variant of triadOf: the fifth is taken three scale steps up.
triadOf_shortFifth(availableChords, chord) ==
  LET rootIdx  == chord.degree - 1
      thirdIdx == (rootIdx + 2) % Len(availableChords)
      fifthIdx == (rootIdx + 3) % Len(availableChords)
  IN  <<availableChords[rootIdx + 1].root,
        availableChords[thirdIdx + 1].root,
        availableChords[fifthIdx + 1].root>>

\* const triad = [availableChords[rootIdx].root, availableChords[thirdIdx]
\* .root, availableChords[fifthIdx].root], the indices counted from 0.
triadOf(availableChords, chord) ==
  LET rootIdx  == chord.degree - 1
      thirdIdx == (rootIdx + 2) % Len(availableChords)
      fifthIdx == (rootIdx + 4) % Len(availableChords)
  IN  <<availableChords[rootIdx + 1].root,
        availableChords[thirdIdx + 1].root,
        availableChords[fifthIdx + 1].root>>

(***************************************************************************)
(* logic.ts: findMatchingKeys.                                             *)
(***************************************************************************)
\* Faulty variant of chordMatches: the quality is not compared.
chordMatches_rootOnly(chord, sel) == chord.root = sel.root

\* Faulty variant of chordMatches: degree and mode are compared too.
chordMatches_strict(chord, sel) ==
  /\ chord.root = sel.root
  /\ chord.quality = sel.quality
  /\ chord.degree = sel.degree
  /\ chord.mode = sel.mode

\* chord.root === sel.root && chord.quality === sel.quality
chordMatches(chord, sel) ==
  chord.root = sel.root /\ chord.quality = sel.quality

\* Faulty variant of matches: an empty selection matches no key.
matches_nonEmpty(diatonic, selectedChords) ==
  /\ Len(selectedChords) > 0
  /\ \A j \in 1..Len(selectedChords) :
       \E i \in 1..Len(diatonic) :
         diatonic[i].root = selectedChords[j].root
           /\ diatonic[i].quality = selectedChords[j].quality

\* Faulty variant of matches: some() in place of every().
matches_some(diatonic, selectedChords) ==
  \E j \in 1..Len(selectedChords) :
    \E i \in 1..Len(diatonic) :
      diatonic[i].root = selectedChords[j].root
        /\ diatonic[i].quality = selectedChords[j].quality

\* selectedChords.every(sel => diatonic.some(chord => ...))
matches(diatonic, selectedChords) ==
  \A j \in 1..Len(selectedChords) :
    \E i \in 1..Len(diatonic) : chordMatches(diatonic[i], selectedChords[j])

\* The value the map callback returns for a key that does not match.
null == [null |-> TRUE]

\* Faulty variant of availableChordsOf: the selected chords are filtered out
\* (the earlier matcher at the end of logic.ts).
availableChordsOf_remaining(diatonic, selectedChords) ==
  LET NotSelected(chord) ==
        ~\E j \in 1..Len(selectedChords) :
            chord.root = selectedChords[j].root
              /\ chord.quality = selectedChords[j].quality
  IN  SelectSeq(diatonic, NotSelected)

\* diatonic.slice(): the whole list, in order.
availableChordsOf(diatonic, selectedChords) == diatonic

\* Faulty variant of matchKey: the test of `matches` is inverted.
matchKey_inverted(key, selectedChords) ==
  LET diatonic == buildDiatonicChords(key)
  IN  IF \A j \in 1..Len(selectedChords) :
           \E i \in 1..Len(diatonic) :
             diatonic[i].root = selectedChords[j].root
               /\ diatonic[i].quality = selectedChords[j].quality
      THEN [null |-> TRUE]
      ELSE [key |-> key, availableChords |-> diatonic]

\* The callback of .map: null, or the key with its available chords.
matchKey(key, selectedChords) ==
  LET diatonic == buildDiatonicChords(key)
  IN  IF ~matches(diatonic, selectedChords)
      THEN null
      ELSE [key |-> key,
            availableChords |-> availableChordsOf(diatonic, selectedChords)]

\* The predicate of .filter(Boolean): null is dropped, an object is kept.
Boolean(r) == "null" \notin DOMAIN r

findMatchingKeys(selectedChords) ==
  LET keys   == getAllKeys
      mapped == [i \in 1..Len(keys) |-> matchKey(keys[i], selectedChords)]
  IN  SelectSeq(mapped, Boolean)

(***************************************************************************)
(* The inputs of the model: chords a caller can pass.                      *)
(***************************************************************************)
\* Every spelling of a note with at most one accidental, with its pitch
\* class (the index of logic.ts NOTES: C = 0, C# = 1, ..., B = 11).
Spellings ==
  << <<"C", 0>>,  <<"C#", 1>>,  <<"Cb", 11>>,
     <<"D", 2>>,  <<"D#", 3>>,  <<"Db", 1>>,
     <<"E", 4>>,  <<"E#", 5>>,  <<"Eb", 3>>,
     <<"F", 5>>,  <<"F#", 6>>,  <<"Fb", 4>>,
     <<"G", 7>>,  <<"G#", 8>>,  <<"Gb", 6>>,
     <<"A", 9>>,  <<"A#", 10>>, <<"Ab", 8>>,
     <<"B", 11>>, <<"B#", 0>>,  <<"Bb", 10>> >>

RootPool == {Spellings[i][1] : i \in 1..Len(Spellings)}

PitchClass(note) ==
  Spellings[CHOOSE i \in 1..Len(Spellings) : Spellings[i][1] = note][2]

\* The chord pool of the initial selections: every root spelling with every
\* quality, as a free-standing triad (mode and degree as buildAllTriads
\* gives its major triads).
PoolChords ==
  [n \in 1..(Len(Spellings) * Len(Qualities)) |->
     Chord(Spellings[((n - 1) \div Len(Qualities)) + 1][1], "Ionian", 1,
           Qualities[((n - 1) % Len(Qualities)) + 1])]

\* The strictly increasing index sequences of length at most n over 1..m.
RECURSIVE IncreasingSeqs(_, _)
IncreasingSeqs(n, m) ==
  IF n = 0 THEN {<<>>}
  ELSE LET shorter == IncreasingSeqs(n - 1, m)
           longest == {p \in shorter \X (1..m) :
                         /\ Len(p[1]) = n - 1
                         /\ (n = 1 \/ p[1][n - 1] < p[2])}
       IN  shorter \cup {Append(p[1], p[2]) : p \in longest}

\* Selections of at most MaxSel distinct chords of the pool, in pool order.
PoolSelections ==
  {[j \in 1..Len(s) |-> PoolChords[s[j]]] :
     s \in IncreasingSeqs(MaxSel, Len(PoolChords))}

\* Selections of one chord exactly as buildDiatonicChords produces it.
DiatonicSelections ==
  {<<buildDiatonicChords(getAllKeys[k])[d]>> :
     k \in 1..Len(getAllKeys), d \in 1..7}

(***************************************************************************)
(* The caller: it holds a selection, calls findMatchingKeys on it, then may *)
(* build a second selection from the same chords (reordered, repeated,     *)
(* relabelled, respelled) and call again.                                  *)
(***************************************************************************)
Init ==
  /\ selection \in PoolSelections \cup DiatonicSelections
  /\ results = <<>>
  /\ pc = "input"
  /\ variation = "none"
  /\ prevSelection = <<>>
  /\ prevResults = <<>>

\* results = findMatchingKeys(activeSelected)
CallFindMatchingKeys ==
  /\ pc = "input"
  /\ results' = findMatchingKeys(selection)
  /\ pc' = "returned"
  /\ UNCHANGED <<selection, variation, prevSelection, prevResults>>
  /\ UNCHANGED <<libVars, appVars, heapVars, playerVars>>

\* A second call: the caller keeps the first call's argument and result,
\* builds the array `next` and calls findMatchingKeys on it.
Vary(kind, next) ==
  /\ pc = "returned"
  /\ variation = "none"
  /\ prevSelection' = selection
  /\ prevResults' = results
  /\ selection' = next
  /\ variation' = kind
  /\ results' = findMatchingKeys(next)
  /\ pc' = "returned"
  /\ UNCHANGED <<libVars, appVars, heapVars, playerVars>>

\* A fresh array with the same chords.
Fresh == Vary("fresh", [j \in 1..Len(selection) |-> selection[j]])

\* Two neighbouring chords change places.
Reorder ==
  \E i \in 1..(Len(selection) - 1) :
    Vary("reorder",
         [selection EXCEPT ![i] = selection[i + 1], ![i + 1] = selection[i]])

\* A chord of the selection occurs once more.
Repeat ==
  \E i \in 1..Len(selection) :
    Vary("repeat", Append(selection, selection[i]))

\* A chord keeps root and quality and takes another degree and mode.
Relabel ==
  \E i \in 1..Len(selection) :
    Vary("relabel",
         [selection EXCEPT
            ![i] = Chord(selection[i].root,
                         IF selection[i].mode = "Ionian"
                         THEN "Aeolian" ELSE "Ionian",
                         (selection[i].degree % 7) + 1,
                         selection[i].quality)])

\* A chord's root is respelled enharmonically: same pitch class, same quality.
Respell ==
  \E i \in 1..Len(selection) :
    \E r \in RootPool :
      /\ r # selection[i].root
      /\ PitchClass(r) = PitchClass(selection[i].root)
      /\ Vary("respell",
              [selection EXCEPT
                 ![i] = Chord(r, selection[i].mode, selection[i].degree,
                              selection[i].quality)])

Next ==
  \/ CallFindMatchingKeys
  \/ Fresh
  \/ Reorder
  \/ Repeat
  \/ Relabel
  \/ Respell

\* No call of the other library functions is in progress.
LibIdle ==
  /\ keyArg = [tonic |-> "C", mode |-> "Ionian"]
  /\ scaleOut = <<>>
  /\ chordsOut = <<>>
  /\ keysOut = <<>>
  /\ triadsOut = <<>>
  /\ intervalScaleOut = <<>>
  /\ done = {}

\* The App as it is mounted (the initial values of its useState hooks), with
\* no chord clicked yet.
NoClick ==
  [run |-> 0, list |-> "none", chord |-> Chord("none", "none", 0, "none"),
   before |-> <<>>]

AppIdle ==
  /\ selectedByKey = <<>>
  /\ selectedFree = <<>>
  /\ viewMode = "byKey"
  /\ selectorMode = "Ionian"
  /\ selectorTonic = "C"
  /\ hist = NoClick
  /\ played = <<>>

\* The player as `new PianoPlayerClass()` leaves it, in a visible document,
\* with nothing played yet.
NewPlayer ==
  [muted |-> FALSE, audioCtx |-> "null", instrument |-> "null",
   masterGain |-> "null", playingNodes |-> <<>>, sequenceTimers |-> <<>>,
   sequenceToken |-> 0, loading |-> "null", isRecreating |-> FALSE,
   recreateTimeoutId |-> 0]

NewBrowser ==
  [visibilityState |-> "visible", state |-> "none", tasks |-> <<>>,
   awaiting |-> <<>>, timeouts |-> 0]

NothingHeard ==
  [plays |-> 0, sounding |-> {}, lastStart |-> [seq |-> 0, index |-> 0],
   requests |-> 0, scheduled |-> 0, cancelled |-> FALSE,
   recovery |-> "none", inputs |-> 0]

PlayerIdle ==
  /\ player = NewPlayer
  /\ browser = NewBrowser
  /\ heard = NothingHeard

\* No caller has written into the table, and none holds its key array.
HeapIdle ==
  /\ scaleWrites = <<>>
  /\ heldKeys = <<>>

SpecInit == Init /\ LibIdle /\ AppIdle /\ HeapIdle /\ PlayerIdle

Spec == SpecInit /\ [][Next]_allVars

(***************************************************************************)
(* A caller that narrows and widens: after the first call it takes one     *)
(* chord out of the selection and calls findMatchingKeys again.            *)
(***************************************************************************)
\* selection.filter((_, j) => j !== i - 1): the selection without its i-th
\* chord.
without(chords, i) ==
  [j \in 1..(Len(chords) - 1) |-> IF j < i THEN chords[j] ELSE chords[j + 1]]

Remove ==
  \E i \in 1..Len(selection) : Vary("remove", without(selection, i))

NarrowNext ==
  \/ CallFindMatchingKeys
  \/ Remove

NarrowSpec == SpecInit /\ [][NarrowNext]_allVars

(***************************************************************************)
(* A caller of the other functions of logic.ts: it holds a key argument    *)
(* and calls buildScale, buildDiatonicChords, getAllKeys and               *)
(* buildAllTriads, each once, in any order.                                *)
(***************************************************************************)
\* The modes a caller can pass: the two of type Mode, and a string that is
\* no Mode (the type is not checked at run time).
ModeArgs == Modes \cup {"Dorian"}

\* A scale array of n notes a caller attaches to a key: the naturals from C,
\* around and around.
OwnScale(n) ==
  [i \in 1..n |-> <<"C", "D", "E", "F", "G", "A", "B">>[((i - 1) % 7) + 1]]

\* The key arguments: the keys of the table as getAllKeys() returns them,
\* and for every tonic spelling and mode the key without a scale (as the
\* App passes it) and with an own scale of 0..MaxScaleLen notes.
KeyArgs ==
  Range(getAllKeys)
    \cup {[tonic |-> t, mode |-> m] : t \in RootPool, m \in ModeArgs}
    \cup {Key(t, m, OwnScale(n)) :
            t \in RootPool, m \in ModeArgs, n \in 0..MaxScaleLen}

\* No call of findMatchingKeys is in progress.
MatcherIdle ==
  /\ selection = <<>>
  /\ results = <<>>
  /\ pc = "idle"
  /\ variation = "none"
  /\ prevSelection = <<>>
  /\ prevResults = <<>>

LibInit ==
  /\ keyArg \in KeyArgs
  /\ scaleOut = <<>>
  /\ chordsOut = <<>>
  /\ keysOut = <<>>
  /\ triadsOut = <<>>
  /\ intervalScaleOut = <<>>
  /\ done = {}
  /\ MatcherIdle
  /\ AppIdle
  /\ HeapIdle
  /\ PlayerIdle

CallBuildScale ==
  /\ "buildScale" \notin done
  /\ scaleOut' = buildScale(keyArg.tonic, keyArg.mode)
  /\ done' = done \cup {"buildScale"}
  /\ UNCHANGED <<keyArg, chordsOut, keysOut, triadsOut, intervalScaleOut,
                 vars, appVars, heapVars, playerVars>>

CallBuildDiatonicChords ==
  /\ "buildDiatonicChords" \notin done
  /\ chordsOut' = buildDiatonicChords(keyArg)
  /\ done' = done \cup {"buildDiatonicChords"}
  /\ UNCHANGED <<keyArg, scaleOut, keysOut, triadsOut, intervalScaleOut,
                 vars, appVars, heapVars, playerVars>>

CallGetAllKeys ==
  /\ "getAllKeys" \notin done
  /\ keysOut' = getAllKeys
  /\ done' = done \cup {"getAllKeys"}
  /\ UNCHANGED <<keyArg, scaleOut, chordsOut, triadsOut, intervalScaleOut,
                 vars, appVars, heapVars, playerVars>>

CallBuildAllTriads ==
  /\ "buildAllTriads" \notin done
  /\ triadsOut' = buildAllTriads
  /\ done' = done \cup {"buildAllTriads"}
  /\ UNCHANGED <<keyArg, scaleOut, chordsOut, keysOut, intervalScaleOut, vars,
                 appVars, heapVars, playerVars>>

\* The earlier buildScale, for a mode SCALE_INTERVALS has an entry for (for
\* any other string intervals is undefined and intervals[0] throws).
CallIntervalBuildScale ==
  /\ "intervalBuildScale" \notin done
  /\ keyArg.mode \in Modes
  /\ intervalScaleOut' = intervalBuildScale(keyArg.tonic, keyArg.mode)
  /\ done' = done \cup {"intervalBuildScale"}
  /\ UNCHANGED <<keyArg, scaleOut, chordsOut, keysOut, triadsOut, vars,
                 appVars, heapVars, playerVars>>

LibNext ==
  \/ CallBuildScale
  \/ CallIntervalBuildScale
  \/ CallBuildDiatonicChords
  \/ CallGetAllKeys
  \/ CallBuildAllTriads

LibSpec == LibInit /\ [][LibNext]_allVars

(***************************************************************************)
(* App.tsx: the selections of the two views, the view mode and the key     *)
(* selected on the circle, driven by the user's clicks.                    *)
(***************************************************************************)
\* The two selections hold the same (root, quality).
samePair(s, chord) == s.root = chord.root /\ s.quality = chord.quality

\* Faulty variant of toggle: the chord is appended, selected or not.
toggle_appendOnly(selected, chord) == Append(selected, chord)

\* The updater passed to setSelectedByKey / setSelectedFree by a click:
\* selected.some(same pair) ? selected.filter(not same pair)
\*                          : [...selected, chord].
toggle(selected, chord) ==
  LET other(s) == ~samePair(s, chord)
  IN  IF \E i \in 1..Len(selected) : samePair(selected[i], chord)
      THEN SelectSeq(selected, other)
      ELSE Append(selected, chord)

\* const diatonicChords = useMemo(() => buildDiatonicChords({tonic, mode})).
diatonicChords ==
  buildDiatonicChords([tonic |-> selectorTonic, mode |-> selectorMode])

\* Faulty variant of activeSelected: the By Key selection, whatever the view.
activeSelected_byKeyOnly == selectedByKey

\* const activeSelected = viewMode === "byKey" ? selectedByKey : selectedFree.
activeSelected == IF viewMode = "byKey" THEN selectedByKey ELSE selectedFree

\* const results = useMemo(() => findMatchingKeys(activeSelected),
\* [activeSelected]) in the render that follows a state update: computed
\* anew when the active selection is another array than before.
useMemoResults(nextActive) ==
  IF nextActive = activeSelected THEN results ELSE findMatchingKeys(nextActive)

\* The variables of a caller of findMatchingKeys other than the results.
callVars == <<selection, pc, variation, prevSelection, prevResults>>

\* The chips of the Free view the user clicks, as indices of buildAllTriads():
\* the first major, the first minor, the first diminished, the second
\* major, ...
ClickableTriads ==
  {((n - 1) % 3) * 12 + ((n - 1) \div 3) + 1 : n \in 1..MaxTriads}

\* The sectors of the circle the user clicks: <<tonic, mode>> as the outer
\* ring (Ionian) and the inner ring (Aeolian) pass them to onSelect.
ClickableSectors ==
  {<<MAJOR_TONICS_ORDER[i], "Ionian">> : i \in 1..MaxTonics}
    \cup {<<MINOR_TONICS_ORDER[i], "Aeolian">> : i \in 1..MaxTonics}

\* The record of the clicks after a click on `chord` in the view `list`,
\* whose selection was `selected` before the click.
Clicked(list, chord, selected) ==
  IF hist.run = 1 /\ hist.list = list /\ hist.chord = chord
  THEN [hist EXCEPT !.run = 2]
  ELSE [run |-> 1, list |-> list, chord |-> chord, before |-> selected]

\* The App after its first render: nothing is selected, and the results are
\* those of the empty selection.
AppInit ==
  /\ AppIdle
  /\ selection = <<>>
  /\ results = findMatchingKeys(<<>>)
  /\ pc = "idle"
  /\ variation = "none"
  /\ prevSelection = <<>>
  /\ prevResults = <<>>
  /\ LibIdle
  /\ HeapIdle
  /\ PlayerIdle

\* What App's onToggle returns to the chip that called it: its body is a
\* block of one statement, the call of setSelectedFree, with no return.
onToggle == "undefined"

\* !becameSelected, for the values onToggle can return.
Not(becameSelected) == becameSelected \in {"undefined", "false"}

\* The triad the chip of t builds: root, third and fifth out of the diatonic
\* chords of the first key that has a chord of t's root and quality.
chipTriad(t) ==
  LET keys  == getAllAllowedKeys
      has(k) == \E ch \in Range(buildDiatonicChords(keys[k])) : samePair(ch, t)
      k     == CHOOSE k \in 1..Len(keys) :
                 has(k) /\ \A j \in 1..(k - 1) : ~has(j)
      diat  == buildDiatonicChords(keys[k])
      m     == CHOOSE m \in 1..Len(diat) :
                 samePair(diat[m], t)
                   /\ \A j \in 1..(m - 1) : ~samePair(diat[j], t)
      rootIdx  == diat[m].degree - 1
      thirdIdx == (rootIdx + 2) % Len(diat)
      fifthIdx == (rootIdx + 4) % Len(diat)
  IN  <<diat[rootIdx + 1].root, diat[thirdIdx + 1].root,
        diat[fifthIdx + 1].root>>

\* The notes the chip of t passes to PianoPlayer.playChord after the call
\* of onToggle: none when the handler breaks on !becameSelected.
chipPlays(t) == IF Not(onToggle) THEN <<>> ELSE chipTriad(t)

\* A click on the chip of degree idx of the By Key view.
ClickChip(idx) ==
  /\ viewMode = "byKey"
  /\ idx \in 1..Len(diatonicChords)
  /\ selectedByKey' = toggle(selectedByKey, diatonicChords[idx])
  /\ hist' = Clicked("byKey", diatonicChords[idx], selectedByKey)
  /\ results' = useMemoResults(selectedByKey')
  /\ played' = <<>>
  /\ UNCHANGED <<selectedFree, viewMode, selectorTonic, selectorMode>>
  /\ UNCHANGED <<callVars, libVars, heapVars, playerVars>>

\* A click on the chip of the triad buildAllTriads()[n] in the Free view:
\* the chip's handler looks for the first key with that triad among its
\* diatonic chords and, having found one, calls onToggle once and plays the
\* triad unless onToggle's value is falsy.
ToggleTriad(n) ==
  /\ viewMode = "free"
  /\ n \in 1..Len(buildAllTriads)
  /\ ~(\A k \in 1..Len(getAllAllowedKeys) :
         \A ch \in Range(buildDiatonicChords(getAllAllowedKeys[k])) :
           ~samePair(ch, buildAllTriads[n]))
  /\ selectedFree' = toggle(selectedFree, buildAllTriads[n])
  /\ hist' = Clicked("free", buildAllTriads[n], selectedFree)
  /\ results' = useMemoResults(selectedFree')
  /\ played' = chipPlays(buildAllTriads[n])
  /\ UNCHANGED <<selectedByKey, viewMode, selectorTonic, selectorMode>>
  /\ UNCHANGED <<callVars, libVars, heapVars, playerVars>>

\* The reset button of the active view.
handleReset ==
  /\ IF viewMode = "byKey"
     THEN selectedByKey' = <<>> /\ UNCHANGED selectedFree
     ELSE selectedFree' = <<>> /\ UNCHANGED selectedByKey
  /\ hist' = NoClick
  /\ played' = <<>>
  /\ results' = useMemoResults(<<>>)
  /\ UNCHANGED <<viewMode, selectorTonic, selectorMode>>
  /\ UNCHANGED <<callVars, libVars, heapVars, playerVars>>

\* A click on a sector of the circle, which the By Key view shows.
onSelect(tonic, mode) ==
  /\ viewMode = "byKey"
  /\ selectorTonic' = tonic
  /\ selectorMode' = mode
  /\ selectedByKey' = <<>>
  /\ hist' = NoClick
  /\ played' = <<>>
  /\ results' = useMemoResults(<<>>)
  /\ UNCHANGED <<selectedFree, viewMode>>
  /\ UNCHANGED <<callVars, libVars, heapVars, playerVars>>

\* A click on a button of the view toggle: the exclusive group passes the
\* other view's value, or null for the button of the current view.
setViewMode(v) ==
  /\ v # viewMode
  /\ viewMode' = v
  /\ results' = useMemoResults(IF v = "byKey" THEN selectedByKey
                                ELSE selectedFree)
  /\ UNCHANGED <<selectedByKey, selectedFree, selectorTonic, selectorMode,
                 hist, played>>
  /\ UNCHANGED <<callVars, libVars, heapVars, playerVars>>

AppNext ==
  \/ \E idx \in 1..MaxChips : ClickChip(idx)
  \/ \E n \in ClickableTriads : ToggleTriad(n)
  \/ handleReset
  \/ \E sector \in ClickableSectors : onSelect(sector[1], sector[2])
  \/ \E v \in {"byKey", "free"} : setViewMode(v)

AppSpec == AppInit /\ [][AppNext]_allVars

(***************************************************************************)
(* keys.ts, logic.ts: a caller that keeps what the functions returned and  *)
(* writes into it.  getAllAllowedKeys returns ALLOWED_KEYS.slice(), a new  *)
(* array of the same key objects, so a returned key and its scale array    *)
(* are the table's own; buildScale returns a copy of the scale array, and  *)
(* buildDiatonicChords returns new chord objects.                          *)
(***************************************************************************)
\* The key objects of ALLOWED_KEYS as the writes so far have left them.
tableNow ==
  [k \in 1..Len(ALLOWED_KEYS) |->
     [ALLOWED_KEYS[k] EXCEPT
        !.scale = [d \in 1..Len(@) |->
                     IF <<k, d>> \in DOMAIN scaleWrites
                     THEN scaleWrites[<<k, d>>]
                     ELSE @[d]]]]

\* The places of the held key array the caller writes to: the first Ionian
\* and the first Aeolian key.
WrittenPlaces == {1, 13}

\* The degrees of a scale the caller overwrites, and the note written.
WrittenDegrees == {1, 7}

WrittenNote == "Cb"

HeapInit ==
  /\ keyArg \in {ALLOWED_KEYS[k] : k \in WrittenPlaces}
  /\ scaleOut = <<>>
  /\ chordsOut = <<>>
  /\ keysOut = <<>>
  /\ triadsOut = <<>>
  /\ intervalScaleOut = <<>>
  /\ done = {}
  /\ HeapIdle
  /\ MatcherIdle
  /\ AppIdle
  /\ PlayerIdle

\* const keys = getAllKeys(): a new array of references to the key objects.
HoldAllKeys ==
  /\ heldKeys' = [i \in 1..Len(ALLOWED_KEYS) |-> i]
  /\ keysOut' = tableNow
  /\ done' = done \cup {"getAllKeys"}
  /\ UNCHANGED <<keyArg, scaleOut, chordsOut, triadsOut, intervalScaleOut,
                 scaleWrites>>
  /\ UNCHANGED <<vars, appVars, playerVars>>

\* keys[i] = keys[j]: a write into the returned array.
WriteHeldArray(i, j) ==
  /\ heldKeys # <<>>
  /\ heldKeys' = [heldKeys EXCEPT ![i] = heldKeys[j]]
  /\ UNCHANGED <<libVars, scaleWrites, vars, appVars, playerVars>>

\* keys[i].scale[d - 1] = note: a write into the scale array of a returned
\* key, which is the scale array of the table's key object.
WriteHeldScale(i, d, note) ==
  /\ heldKeys # <<>>
  /\ Cardinality(DOMAIN scaleWrites \cup {<<heldKeys[i], d>>}) <= MaxWrites
  /\ scaleWrites' =
       [p \in DOMAIN scaleWrites \cup {<<heldKeys[i], d>>} |->
          IF p = <<heldKeys[i], d>> THEN note ELSE scaleWrites[p]]
  /\ UNCHANGED <<libVars, heldKeys, vars, appVars, playerVars>>

\* const scale = buildScale(keyArg.tonic, keyArg.mode).
HeapBuildScale ==
  /\ scaleOut' = buildScaleIn(tableNow, keyArg.tonic, keyArg.mode)
  /\ done' = (done \ {"scale written"}) \cup {"buildScale"}
  /\ UNCHANGED <<keyArg, chordsOut, keysOut, triadsOut, intervalScaleOut,
                 heapVars>>
  /\ UNCHANGED <<vars, appVars, playerVars>>

\* scale[d - 1] = note: a write into the array buildScale returned.
WriteScaleCopy(d, note) ==
  /\ d \in 1..Len(scaleOut)
  /\ scaleOut' = [scaleOut EXCEPT ![d] = note]
  /\ done' = done \cup {"scale written"}
  /\ UNCHANGED <<keyArg, chordsOut, keysOut, triadsOut, intervalScaleOut,
                 heapVars>>
  /\ UNCHANGED <<vars, appVars, playerVars>>

\* const chords = buildDiatonicChords(keys[i]), for a key of the held array.
HeapBuildDiatonicChords(i) ==
  /\ heldKeys # <<>>
  /\ chordsOut' = buildDiatonicChords(tableNow[heldKeys[i]])
  /\ keyArg' = ALLOWED_KEYS[heldKeys[i]]
  /\ done' = (done \ {"chords written"}) \cup {"buildDiatonicChords"}
  /\ UNCHANGED <<scaleOut, keysOut, triadsOut, intervalScaleOut, heapVars>>
  /\ UNCHANGED <<vars, appVars, playerVars>>

\* chords[d - 1].root = note: a write into a chord of the returned list.
WriteChordList(d, note) ==
  /\ d \in 1..Len(chordsOut)
  /\ chordsOut' = [chordsOut EXCEPT ![d].root = note]
  /\ done' = done \cup {"chords written"}
  /\ UNCHANGED <<keyArg, scaleOut, keysOut, triadsOut, intervalScaleOut,
                 heapVars>>
  /\ UNCHANGED <<vars, appVars, playerVars>>

HeapNext ==
  \/ HoldAllKeys
  \/ \E i, j \in WrittenPlaces : WriteHeldArray(i, j)
  \/ \E i \in WrittenPlaces, d \in WrittenDegrees :
       WriteHeldScale(i, d, WrittenNote)
  \/ HeapBuildScale
  \/ \E d \in WrittenDegrees : WriteScaleCopy(d, WrittenNote)
  \/ \E i \in WrittenPlaces : HeapBuildDiatonicChords(i)
  \/ \E d \in WrittenDegrees : WriteChordList(d, WrittenNote)

HeapSpec == HeapInit /\ [][HeapNext]_allVars

(***************************************************************************)
(* PianoPlayer.ts: the singleton player.  A call of a method, the callback *)
(* of a timeout, the settlement of a promise of the browser and a          *)
(* visibilitychange event are each one task of the event loop; what a task *)
(* awaits on a promise that is settled already runs before the next task,  *)
(* and so within the same step.  Time passes in ticks of TickMs: a timeout *)
(* runs once the ticks of its delay have passed, the timeouts that are due *)
(* run in any order, and a call or an event comes at any time.             *)
(***************************************************************************)
\* The player, the browser and the history as one record.
World == player @@ browser @@ heard

\* The fields of w that make up the record r.
Fields(w, r) == [f \in DOMAIN r |-> w[f]]

Commit(w) ==
  /\ player' = Fields(w, player)
  /\ browser' = Fields(w, browser)
  /\ heard' = Fields(w, heard)

\* The ticks a timeout of ms milliseconds takes.
Ticks(ms) == (ms + TickMs - 1) \div TickMs

\* A pending task of the browser: a timeout of ms milliseconds, due after
\* `after` ticks, or the settlement of close().
Task(kind, ms, seq, token, index, nodes) ==
  [kind |-> kind, ms |-> ms, after |-> Ticks(ms), seq |-> seq,
   token |-> token, index |-> index, nodes |-> nodes, perChordMs |-> 0,
   fadeMs |-> 0]

\* The timeout of the chord i of the sequence k, with the token and the
\* arguments of playSequence its callback holds.
SequenceTask(k, myToken, i) ==
  [Task("sequence", (i - 1) * k.durationMs, k.seq, myToken, i, <<>>)
     EXCEPT !.perChordMs = k.durationMs, !.fadeMs = k.fadeMs]

\* A continuation awaiting ensureLoaded(): of playChord for the chord
\* `index` of the sequence `seq` (0 for a chord of no sequence), of
\* playSequence for the sequence `seq` of n chords, or of another caller.
Awaiting(kind, seq, index, n, durationMs, fadeMs) ==
  [kind |-> kind, seq |-> seq, index |-> index, n |-> n,
   durationMs |-> durationMs, fadeMs |-> fadeMs]

removeAt(s, i) == [j \in 1..(Len(s) - 1) |-> IF j < i THEN s[j] ELSE s[j + 1]]

isActuallyPlaying(w) ==
  Len(w.playingNodes) > 0 \/ Len(w.sequenceTimers) > 0

\* clearTimeout of every timer of sequenceTimers, an empty list, the next
\* token.  A timer of a sequence is known by the sequence and the chord.
clearSequenceTimers(w) ==
  LET kept(t) == ~(t.kind = "sequence"
                     /\ <<t.seq, t.index>> \in Range(w.sequenceTimers))
  IN  [w EXCEPT !.tasks = SelectSeq(@, kept),
                !.sequenceTimers = <<>>,
                !.sequenceToken = @ + 1]

\* stopAll(fadeMs): the fade, and a timeout that stops the nodes playing now
\* and empties playingNodes.
stopAll(w, fadeMs) ==
  IF w.masterGain = "null" \/ w.audioCtx = "null"
  THEN w
  ELSE [w EXCEPT !.tasks =
                   Append(@, Task("stopAll", fadeMs + 8, 0, 0, 0,
                                  w.playingNodes))]

\* playChord past `await this.ensureLoaded()`: the notes start, and a
\* timeout is set that stops what is playing then.
startChord(w, k) ==
  IF w.instrument = "null" \/ w.audioCtx = "null" \/ w.masterGain = "null"
  THEN w
  ELSE LET chord == w.plays + 1
           w1    == stopAll(w, k.fadeMs)
       IN  [w1 EXCEPT
              !.playingNodes = <<chord>>,
              !.tasks = Append(@, Task("chordStop", k.durationMs + 200,
                                       0, 0, chord, <<>>)),
              !.plays = chord,
              !.sounding = @ \cup {chord},
              !.lastStart = IF k.seq = 0 THEN @
                            ELSE [seq |-> k.seq, index |-> k.index]]

\* playSequence past `await this.ensureLoaded()`, for a sequence of k.n
\* chords, without the call of clearSequenceTimers.
scheduleSequence_keepsOlderTimers(w, k) ==
  IF w.audioCtx = "null"
  THEN w
  ELSE LET w1      == stopAll(w, k.fadeMs)
           myToken == w1.sequenceToken
       IN  [w1 EXCEPT
              !.tasks = @ \o [i \in 1..k.n |-> SequenceTask(k, myToken, i)],
              !.sequenceTimers = @ \o [i \in 1..k.n |-> <<k.seq, i>>],
              !.scheduled = k.seq,
              !.cancelled = FALSE]

\* playSequence past `await this.ensureLoaded()`, for a sequence of k.n
\* chords: one timeout per chord.
scheduleSequence(w, k) ==
  IF w.audioCtx = "null"
  THEN w
  ELSE LET w1      == clearSequenceTimers(stopAll(w, k.fadeMs))
           myToken == w1.sequenceToken
       IN  [w1 EXCEPT
              !.tasks = @ \o [i \in 1..k.n |-> SequenceTask(k, myToken, i)],
              !.sequenceTimers = @ \o [i \in 1..k.n |-> <<k.seq, i>>],
              !.scheduled = k.seq,
              !.cancelled = FALSE]

\* The callback of the recreate timeout past `await this.ensureLoaded()`:
\* its finally block.
recreated(w) ==
  LET kept(t) == ~(t.kind = "recreate" /\ t.index = w.recreateTimeoutId)
  IN  [w EXCEPT !.isRecreating = FALSE,
                !.tasks = IF w.recreateTimeoutId # 0
                          THEN SelectSeq(@, kept) ELSE @,
                !.recreateTimeoutId = 0,
                !.recovery = "finished"]

\* What runs when the promise of ensureLoaded() is fulfilled.
Continue(w, k) ==
  CASE k.kind = "playChord"    -> startChord(w, k)
    [] k.kind = "playSequence" -> scheduleSequence(w, k)
    [] k.kind = "recreate"     -> recreated(w)
    [] k.kind = "resume"       -> w

RECURSIVE ContinueAll(_, _)
ContinueAll(w, ks) ==
  IF ks = <<>> THEN w ELSE ContinueAll(Continue(w, Head(ks)), Tail(ks))

\* await this.ensureLoaded(), followed by k: at once with an instrument and
\* a context, or with the promise `loading` fulfilled; once `loading` is
\* fulfilled when it is pending; and with no `loading` yet a new context in
\* the state `state` is made and the load of the instrument begins.
ensureLoaded(w, k, state) ==
  IF w.instrument # "null" /\ w.audioCtx # "null" THEN Continue(w, k)
  ELSE IF w.loading = "fulfilled" THEN Continue(w, k)
  ELSE IF w.loading = "pending" THEN [w EXCEPT !.awaiting = Append(@, k)]
  ELSE [w EXCEPT !.audioCtx = "context",
                 !.state = state,
                 !.masterGain = "gain",
                 !.loading = "pending",
                 !.awaiting = Append(@, k)]

\* playChord of the sequence k.seq's chord k.index; k.seq = 0 for a chord
\* that is not of a sequence.
playChord(w, k) ==
  IF w.muted THEN w ELSE ensureLoaded(w, k, "running")

\* playSequence(chords, perChordMs, fadeMs) with n chords, the
\* w.requests + 1st sequence requested.
playSequence(w, n, perChordMs, fadeMs) ==
  LET w1 == [w EXCEPT !.requests = @ + 1]
  IN  IF w.muted THEN w1
      ELSE ensureLoaded(w1, Awaiting("playSequence", w1.requests, 0, n,
                                     perChordMs, fadeMs),
                        "running")

stopSequence(w, fadeMs) == stopAll(clearSequenceTimers(w), fadeMs)

setMuted(w, v) ==
  LET w1 == [w EXCEPT !.muted = v]
  IN  IF w1.muted THEN stopSequence(w1, 40) ELSE w1

suspendAudioContext(w) ==
  IF w.audioCtx = "null" THEN w
  ELSE IF isActuallyPlaying(w) THEN w
  ELSE IF w.state = "running" THEN [w EXCEPT !.state = "suspended"]
  ELSE w

\* resumeOrRecreateAudioContext up to its 220 ms wait.  `state` is the state
\* resume() leaves the context in, or the state of the new context.
resumeOrRecreateAudioContext(w, state) ==
  IF w.isRecreating THEN w
  ELSE IF w.audioCtx = "null"
  THEN ensureLoaded([w EXCEPT !.instrument = "null"],
                    Awaiting("resume", 0, 0, 0, 0, 0), state)
  ELSE [w EXCEPT !.state = state,
                 !.tasks = Append(@, Task("resumeWait", 220, 0, 0, 0, <<>>))]

\* The states resume() can leave the context in, which the player
\* suspended or the browser interrupted while the document was hidden, and
\* the states of a context made outside of a user's gesture.
StatesAfterResume(w) ==
  IF w.isRecreating \/ w.state = "closed" THEN {w.state}
  ELSE IF w.audioCtx = "null" THEN {"running", "suspended"}
  ELSE IF w.state = "running" THEN {"running", "interrupted"}
  ELSE {"running", w.state}

\* resumeOrRecreateAudioContext past its 220 ms wait, up to
\* `await this.audioCtx.close()`.  Without a context the read of its state
\* throws, and the catch resets isRecreating.
afterResumeWait(w) ==
  IF w.audioCtx = "null" THEN [w EXCEPT !.isRecreating = FALSE]
  ELSE IF w.state = "running" THEN w
  ELSE [w EXCEPT !.isRecreating = TRUE,
                 !.state = "closed",
                 !.tasks = Append(@, Task("close", 0, 0, 0, 0, <<>>))]

\* resumeOrRecreateAudioContext past `await this.audioCtx.close()`: it
\* drops the context and the instrument and sets the recreate timeout.
afterClose(w) ==
  LET kept(t) == ~(t.kind = "recreate" /\ t.index = w.recreateTimeoutId)
      id      == w.timeouts + 1
  IN  [w EXCEPT !.audioCtx = "null",
                !.instrument = "null",
                !.tasks = Append(IF w.recreateTimeoutId # 0
                                 THEN SelectSeq(@, kept) ELSE @,
                                 Task("recreate", 300, 0, 0, id, <<>>)),
                !.recreateTimeoutId = id,
                !.timeouts = id,
                !.recovery = "started"]

\* The player gets one more input.
OneMore(w) == [w EXCEPT !.inputs = @ + 1]

CallPlayChord ==
  /\ heard.inputs < MaxInputs
  /\ Commit(playChord(OneMore(World),
                      Awaiting("playChord", 0, 0, 0, 1400, 60)))
  /\ UNCHANGED <<vars, libVars, appVars, heapVars>>

\* A click on a sector of the circle: PianoPlayer.stopAll(100), and
\* PianoPlayer.playSequence(chords, 900, 60) with the n triads of the key.
CallPlaySequence(n) ==
  /\ heard.inputs < MaxInputs
  /\ Commit(playSequence(stopAll(OneMore(World), 100), n, 900, 60))
  /\ UNCHANGED <<vars, libVars, appVars, heapVars>>

CallStopSequence ==
  /\ heard.inputs < MaxInputs
  /\ Commit([stopSequence(OneMore(World), 40) EXCEPT !.cancelled = TRUE])
  /\ UNCHANGED <<vars, libVars, appVars, heapVars>>

CallSetMuted(v) ==
  /\ heard.inputs < MaxInputs
  /\ v # player.muted
  /\ Commit([setMuted(OneMore(World), v) EXCEPT !.cancelled = @ \/ v])
  /\ UNCHANGED <<vars, libVars, appVars, heapVars>>

\* The document's visibility changes to v and the listener runs.
handleVisibilityChange(v) ==
  /\ heard.inputs < MaxInputs
  /\ v # browser.visibilityState
  /\ LET w == [OneMore(World) EXCEPT !.visibilityState = v]
     IN  IF v = "hidden"
         THEN Commit(suspendAudioContext(w))
         ELSE \E state \in StatesAfterResume(w) :
                Commit(resumeOrRecreateAudioContext(w, state))
  /\ UNCHANGED <<vars, libVars, appVars, heapVars>>

\* Soundfont.instrument(...) is fulfilled: the instrument is stored, and
\* the continuations awaiting `loading` run in the order of their calls.
LoadCompletes ==
  /\ player.loading = "pending"
  /\ Commit(ContinueAll([World EXCEPT !.instrument = "piano",
                                      !.loading = "fulfilled",
                                      !.awaiting = <<>>],
                        browser.awaiting))
  /\ UNCHANGED <<vars, libVars, appVars, heapVars>>

\* The pending tasks a tick later.
Later(t) == IF t.kind = "close" THEN t ELSE [t EXCEPT !.after = @ - 1]

\* A tick passes: no timeout is due, and one is pending.
Tick ==
  /\ \E i \in 1..Len(browser.tasks) : browser.tasks[i].kind # "close"
  /\ \A i \in 1..Len(browser.tasks) :
       browser.tasks[i].kind # "close" => browser.tasks[i].after > 0
  /\ browser' = [browser EXCEPT !.tasks = [i \in 1..Len(@) |-> Later(@[i])]]
  /\ UNCHANGED <<player, heard>>
  /\ UNCHANGED <<vars, libVars, appVars, heapVars>>

\* The timeout i is due and may run: a timeout set no later, of no longer
\* a delay, runs before it.
MayRun(i) ==
  /\ browser.tasks[i].after = 0
  /\ \A j \in 1..(i - 1) :
       browser.tasks[j].kind # "close"
         => browser.tasks[j].ms > browser.tasks[i].ms

\* The world with the pending task i taken.
Taken(i) == [World EXCEPT !.tasks = removeAt(@, i)]

\* The timeout of a chord of a sequence.
SequenceTimerFires(i) ==
  /\ browser.tasks[i].kind = "sequence"
  /\ MayRun(i)
  /\ LET t == browser.tasks[i]
     IN  IF t.token # player.sequenceToken
         THEN Commit(Taken(i))
         ELSE Commit(playChord(Taken(i),
                               Awaiting("playChord", t.seq, t.index, 0,
                                        t.perChordMs, t.fadeMs)))
  /\ UNCHANGED <<vars, libVars, appVars, heapVars>>

\* The timeout playChord sets: it stops the nodes of playingNodes.
ChordStopTimerFires(i) ==
  /\ browser.tasks[i].kind = "chordStop"
  /\ MayRun(i)
  /\ Commit([Taken(i) EXCEPT
               !.sounding = (@ \ Range(player.playingNodes)) \ {browser.tasks[i].index},
               !.playingNodes = <<>>])
  /\ UNCHANGED <<vars, libVars, appVars, heapVars>>

\* The timeout stopAll sets: it stops the nodes that played at the call.
StopAllTimerFires(i) ==
  /\ browser.tasks[i].kind = "stopAll"
  /\ MayRun(i)
  /\ Commit([Taken(i) EXCEPT
               !.sounding = @ \ Range(browser.tasks[i].nodes),
               !.playingNodes = <<>>])
  /\ UNCHANGED <<vars, libVars, appVars, heapVars>>

ResumeWaitElapses(i) ==
  /\ browser.tasks[i].kind = "resumeWait"
  /\ MayRun(i)
  /\ Commit(afterResumeWait(Taken(i)))
  /\ UNCHANGED <<vars, libVars, appVars, heapVars>>

CloseSettles(i) ==
  /\ browser.tasks[i].kind = "close"
  /\ Commit(afterClose(Taken(i)))
  /\ UNCHANGED <<vars, libVars, appVars, heapVars>>

RecreateTimerFires(i) ==
  /\ browser.tasks[i].kind = "recreate"
  /\ MayRun(i)
  /\ Commit(ensureLoaded(Taken(i), Awaiting("recreate", 0, 0, 0, 0, 0),
                         "suspended"))
  /\ UNCHANGED <<vars, libVars, appVars, heapVars>>

PlayerInit ==
  /\ PlayerIdle
  /\ MatcherIdle
  /\ LibIdle
  /\ AppIdle
  /\ HeapIdle

PlayerNext ==
  \/ CallPlayChord
  \/ CallPlaySequence(MaxChords)
  \/ CallStopSequence
  \/ \E v \in BOOLEAN : CallSetMuted(v)
  \/ \E v \in {"hidden", "visible"} : handleVisibilityChange(v)
  \/ LoadCompletes
  \/ \E i \in 1..Len(browser.tasks) : SequenceTimerFires(i)
  \/ \E i \in 1..Len(browser.tasks) : ChordStopTimerFires(i)
  \/ \E i \in 1..Len(browser.tasks) : StopAllTimerFires(i)
  \/ \E i \in 1..Len(browser.tasks) : ResumeWaitElapses(i)
  \/ \E i \in 1..Len(browser.tasks) : CloseSettles(i)
  \/ \E i \in 1..Len(browser.tasks) : RecreateTimerFires(i)
  \/ Tick

PlayerSpec == PlayerInit /\ [][PlayerNext]_allVars

(***************************************************************************)
(* Shorthands of the properties.                                           *)
(***************************************************************************)
Returned == pc = "returned"

\* The keys of a result list, in order.
KeysOf(res) == [j \in 1..Len(res) |-> res[j].key]

\* The (root, quality) pairs of a chord list.
Pairs(chords) == {<<c.root, c.quality>> : c \in Range(chords)}

\* The diatonic chords of each key of getAllKeys(), by table index, and
\* their (root, quality) pairs.
DiatonicOf ==
  [k \in 1..Len(getAllKeys) |-> buildDiatonicChords(getAllKeys[k])]

DiatonicPairs == [k \in 1..Len(getAllKeys) |-> Pairs(DiatonicOf[k])]

\* The table index of the key (tonic, mode); 0 when there is none.
KeyIndex(tonic, mode) ==
  LET hits == {i \in 1..Len(getAllKeys) :
                 getAllKeys[i].tonic = tonic /\ getAllKeys[i].mode = mode}
  IN  IF hits = {} THEN 0 ELSE CHOOSE i \in hits : TRUE

\* Whether the key (tonic, mode) is among the results.
HasKey(res, tonic, mode) ==
  \E j \in 1..Len(res) : res[j].key.tonic = tonic /\ res[j].key.mode = mode

TypeOK ==
  /\ pc \in {"input", "returned", "idle"}
  /\ variation \in {"none", "fresh", "reorder", "repeat", "relabel", "respell",
                    "remove"}
  /\ \A c \in Range(selection) :
       c.quality \in Range(Qualities) /\ c.mode \in Modes

(***************************************************************************)
(* The key matcher: claims about findMatchingKeys.                         *)
(***************************************************************************)
\* The table indices of the keys in which every chord of sel is diatonic by
\* root and quality.
MatchSet(sel) ==
  {k \in 1..Len(getAllKeys) :
     \A s \in Range(sel) :
       \E c \in Range(DiatonicOf[k]) :
         c.root = s.root /\ c.quality = s.quality}

\* The j-th smallest element of a set of numbers.
NthOf(M, j) == CHOOSE i \in M : Cardinality({x \in M : x < i}) = j - 1

\* C1: for every selection, findMatchingKeys returns exactly the keys of
\* getAllKeys() in which every selected chord has a diatonic chord of equal
\* root and equal quality (degree and mode of the selected chord play no
\* part), each such key once, in the order of getAllKeys().
C1_ExactlyTheMatchingKeys ==
  Returned =>
    LET M == MatchSet(selection)
    IN  /\ Len(results) = Cardinality(M)
        /\ \A j \in 1..Len(results) : results[j].key = getAllKeys[NthOf(M, j)]

\* C1 witness: a call with two chords, one of them not a chord the program
\* builds (a minor triad labelled degree 1 of Ionian), returned exactly
\* C Ionian and A Aeolian.
C1_Witness ==
  /\ Returned
  /\ Pairs(selection) = {<<"D", "minor">>, <<"G", "major">>}
  /\ \E c \in Range(selection) :
       c.quality = "minor" /\ c.mode = "Ionian" /\ c.degree = 1
  /\ KeysOf(results) = <<getAllKeys[1], getAllKeys[13]>>

\* C2: findMatchingKeys([]) returns exactly 24 results, one for each key of
\* the key table, and every result has exactly 7 available chords.
C2_EmptySelectionAllKeys ==
  (Returned /\ selection = <<>>) =>
    /\ Len(results) = 24
    /\ \A k \in 1..Len(ALLOWED_KEYS) :
         Cardinality({j \in 1..Len(results) :
                        results[j].key = ALLOWED_KEYS[k]}) = 1
    /\ \A j \in 1..Len(results) : Len(results[j].availableChords) = 7

\* C2 witness: the call with the empty selection has returned 24 results.
C2_Witness ==
  /\ Returned
  /\ selection = <<>>
  /\ Len(results) = 24

C4_AvailableExcludesSelection ==
  Returned =>
    \A j \in 1..Len(results) :
      /\ Pairs(results[j].availableChords) \cap Pairs(selection) = {}
      /\ Pairs(results[j].availableChords) =
           Pairs(buildDiatonicChords(results[j].key)) \ Pairs(selection)

\* The selection is the single chord with this root and quality.
IsSingle(sel, root, quality) ==
  Len(sel) = 1 /\ sel[1].root = root /\ sel[1].quality = quality

\* C5 as stated: findMatchingKeys of the single chord C major returns C, F
\* and G Ionian and no Aeolian key.
C5_Original_NoAeolianKey ==
  (Returned /\ IsSingle(selection, "C", "major")) =>
    /\ HasKey(results, "C", "Ionian")
    /\ HasKey(results, "F", "Ionian")
    /\ HasKey(results, "G", "Ionian")
    /\ \A j \in 1..Len(results) : results[j].key.mode # "Aeolian"

\* C5 as amended: findMatchingKeys of the single chord C major returns
\* exactly six keys: C, G and F Ionian and their relative minors A, E and
\* D Aeolian, in which C major is the chord of degree 3, 6 and 7.
C5_CMajorSixKeys ==
  (Returned /\ IsSingle(selection, "C", "major")) =>
    /\ Len(results) = 6
    /\ HasKey(results, "C", "Ionian")
    /\ HasKey(results, "F", "Ionian")
    /\ HasKey(results, "G", "Ionian")
    /\ HasKey(results, "A", "Aeolian")
    /\ HasKey(results, "E", "Aeolian")
    /\ HasKey(results, "D", "Aeolian")

\* C5 witness: the call with the C major triad of buildAllTriads returned,
\* and A Aeolian is among the results.
C5_Witness ==
  /\ Returned
  /\ selection = <<Chord("C", "Ionian", 1, "major")>>
  /\ \E j \in 1..Len(results) :
       results[j].key.mode = "Aeolian" /\ results[j].key.tonic = "A"

\* C6: relative keys are never told apart: for every selection and every
\* Ionian key K of the table, the table holds the Aeolian key on the 6th
\* degree of K's scale, and K is among the results if and only if that key
\* is; the selections {F major} and {G major} return both C major and
\* A minor.
C6_RelativeKeysTogether ==
  Returned =>
    /\ \A k \in 1..Len(getAllKeys) :
         getAllKeys[k].mode = "Ionian" =>
           /\ KeyIndex(getAllKeys[k].scale[6], "Aeolian") # 0
           /\ HasKey(results, getAllKeys[k].tonic, "Ionian")
                <=> HasKey(results, getAllKeys[k].scale[6], "Aeolian")
    /\ (IsSingle(selection, "F", "major") \/ IsSingle(selection, "G", "major"))
         => HasKey(results, "C", "Ionian") /\ HasKey(results, "A", "Aeolian")

\* C6 witness: the call with {F major} returned C Ionian and A Aeolian, and
\* not every key.
C6_Witness ==
  /\ Returned
  /\ IsSingle(selection, "F", "major")
  /\ HasKey(results, "C", "Ionian")
  /\ HasKey(results, "A", "Aeolian")
  /\ Len(results) < 24

\* C7: round trip: for every key K of getAllKeys() and every chord c of
\* buildDiatonicChords(K), findMatchingKeys([c]) contains K.
C7_RoundTrip ==
  (Returned /\ Len(selection) = 1) =>
    \A k \in 1..Len(getAllKeys) :
      selection[1] \in Range(DiatonicOf[k])
        => \E j \in 1..Len(results) : results[j].key = getAllKeys[k]

\* C7 witness: the call with the chord of degree 2 of D# Aeolian, as
\* buildDiatonicChords built it, returned D# Aeolian.
C7_Witness ==
  /\ Returned
  /\ selection = <<buildDiatonicChords(getAllKeys[19])[2]>>
  /\ selection[1] = Chord("E#", "Aeolian", 2, "diminished")
  /\ HasKey(results, "D#", "Aeolian")

\* Whether the pair (root, quality) of chord s occurs in no key's diatonic
\* chord list.
InNoKey(s) ==
  \A k \in 1..Len(getAllKeys) : <<s.root, s.quality>> \notin DiatonicPairs[k]

\* C8: if a selection contains at least one chord whose (root, quality)
\* pair occurs in no key's diatonic chord list, findMatchingKeys returns
\* the empty list.
C8_ForeignChordNoResult ==
  (Returned /\ \E s \in Range(selection) : InNoKey(s)) => results = <<>>

\* C8 witness: the call with C major (diatonic in six keys) and
\* C diminished (diatonic in no key of the table) returned the empty list.
C8_Witness ==
  /\ Returned
  /\ Pairs(selection) = {<<"C", "major">>, <<"C", "diminished">>}
  /\ InNoKey(Chord("C", "Ionian", 1, "diminished"))
  /\ ~InNoKey(Chord("C", "Ionian", 1, "major"))
  /\ results = <<>>

\* C9: the result depends only on the set of (root, quality) pairs of the
\* selection: a second call whose selection has the same set of pairs (a
\* fresh equal array, a reordering, a repeated chord, chords differing only
\* in degree or mode) returns the identical list of keys and available
\* chords, in the identical order.
C9_DependsOnlyOnPairs ==
  (Returned /\ variation # "none" /\ Pairs(selection) = Pairs(prevSelection))
    => results = prevResults

\* C9 witness: a second call with a relabelled chord (other degree and
\* mode, so a different array) returned the same non-empty result.
C9_Witness ==
  /\ Returned
  /\ variation = "relabel"
  /\ selection # prevSelection
  /\ Len(selection) = 2
  /\ Len(results) > 0
  /\ results = prevResults

\* C10: matching uses the pitch class of the chord root: two selections
\* that differ only by an enharmonic respelling of a root (same pitch class
\* and quality) yield the same set of matching keys.
C10_EnharmonicSameKeys ==
  (Returned /\ variation = "respell")
    => Range(KeysOf(results)) = Range(KeysOf(prevResults))


(***************************************************************************)
(* Shorthands of the properties of the library calls.                      *)
(***************************************************************************)
\* (tonic, mode) is one of the pairs of the key table.
InTable(tonic, mode) ==
  \E i \in 1..Len(ALLOWED_KEYS) :
    ALLOWED_KEYS[i].tonic = tonic /\ ALLOWED_KEYS[i].mode = mode

\* The key argument is one of the keys of the table, scale included.
IsTableKey == keyArg \in Range(ALLOWED_KEYS)

Called(f) == f \in done

LibTypeOK ==
  /\ keyArg \in KeyArgs
  /\ done \subseteq {"buildScale", "buildDiatonicChords", "getAllKeys",
                     "buildAllTriads", "intervalBuildScale"}
  /\ Len(intervalScaleOut) \in {0, 7}
  /\ Len(scaleOut) \in 0..7
  /\ Len(chordsOut) \in 0..MaxScaleLen
  /\ Len(keysOut) \in {0, 24}
  /\ Len(triadsOut) \in {0, 36}

(***************************************************************************)
(* C11: for each of the 24 keys K of the table, buildDiatonicChords(K)     *)
(* returns exactly 7 chords, the i-th with degree i, root K.scale[i-1]     *)
(* (the i-th note, counting from one), mode K.mode and the quality of the  *)
(* fixed pattern of K.mode: Ionian major, minor, minor, major, major,      *)
(* minor, diminished; Aeolian minor, diminished, major, minor, minor,      *)
(* major, major.                                                           *)
(***************************************************************************)
C11_SevenChordsOfTableKey ==
  (IsTableKey /\ Called("buildDiatonicChords")) =>
    /\ Len(chordsOut) = 7
    /\ \A i \in 1..7 :
         /\ chordsOut[i].degree = i
         /\ chordsOut[i].root = keyArg.scale[i]
         /\ chordsOut[i].mode = keyArg.mode
         /\ chordsOut[i].quality =
              IF keyArg.mode = "Ionian"
              THEN <<"major", "minor", "minor", "major", "major", "minor",
                     "diminished">>[i]
              ELSE <<"minor", "diminished", "major", "minor", "minor",
                     "major", "major">>[i]

\* The chords of F# Aeolian have been built.
C11_Witness ==
  /\ IsTableKey
  /\ keyArg.tonic = "F#"
  /\ keyArg.mode = "Aeolian"
  /\ Called("buildDiatonicChords")
  /\ Len(chordsOut) = 7
  /\ chordsOut[2] = Chord("G#", "Aeolian", 2, "diminished")

(***************************************************************************)
(* C12: for every key argument that carries a scale whose length is not 7  *)
(* (a key whose tonic and mode are in the table included), the result of   *)
(* buildDiatonicChords is the empty chord list.                            *)
(***************************************************************************)
C12_MalformedScaleEmpty ==
  ( /\ Called("buildDiatonicChords")
    /\ "scale" \in DOMAIN keyArg
    /\ Len(keyArg.scale) # 7 ) => chordsOut = <<>>

(***************************************************************************)
(* C13: for every (tonic, mode) pair that is not one of the 24 table       *)
(* entries, buildScale(tonic, mode) returns the empty list, and            *)
(* buildDiatonicChords of a key of that tonic and mode without a scale     *)
(* returns the empty list.                                                 *)
(***************************************************************************)
C13_UnknownPairEmpty ==
  ~InTable(keyArg.tonic, keyArg.mode) =>
    /\ Called("buildScale") => scaleOut = <<>>
    /\ (Called("buildDiatonicChords") /\ "scale" \notin DOMAIN keyArg)
         => chordsOut = <<>>

\* G# has an Aeolian key and no Ionian key: both functions have been called
\* with G# Ionian and no scale.
C13_Witness ==
  /\ keyArg = [tonic |-> "G#", mode |-> "Ionian"]
  /\ Called("buildScale")
  /\ Called("buildDiatonicChords")
  /\ scaleOut = <<>>
  /\ chordsOut = <<>>

(***************************************************************************)
(* C14: buildDiatonicChords returns the empty list for every key argument  *)
(* whose (tonic, mode) pair is not in the 24-key table, also when the      *)
(* argument carries a 7-note scale of its own.                             *)
(***************************************************************************)
C14_UnknownPairNeverAKey ==
  (Called("buildDiatonicChords") /\ ~InTable(keyArg.tonic, keyArg.mode))
    => chordsOut = <<>>



\* The letter name of a spelling, as a number: C = 1, D = 2, ..., B = 7.
LetterOf(note) ==
  ((CHOOSE i \in 1..Len(Spellings) : Spellings[i][1] = note) - 1) \div 3 + 1

\* The tonics of the keys from..to of a key list.
TonicsOf(keys, from, to) == [i \in 1..(to - from + 1) |-> keys[from + i - 1].tonic]

\* b is the pitch class a perfect fifth (7 semitones) above a.
FifthAbove(a, b) == PitchClass(b) = (PitchClass(a) + 7) % 12

(***************************************************************************)
(* C15: getAllKeys() returns exactly 24 keys with pairwise distinct        *)
(* (tonic, mode): 12 Ionian followed by 12 Aeolian; every key has a scale  *)
(* of exactly 7 notes whose first note is its tonic, and within each mode  *)
(* the 12 tonics cover the 12 pitch classes exactly once.                  *)
(***************************************************************************)
C15_TwentyFourKeys ==
  Called("getAllKeys") =>
    /\ Len(keysOut) = 24
    /\ \A i, j \in 1..Len(keysOut) :
         (keysOut[i].tonic = keysOut[j].tonic
            /\ keysOut[i].mode = keysOut[j].mode) => i = j
    /\ \A i \in 1..12 : keysOut[i].mode = "Ionian"
    /\ \A i \in 13..24 : keysOut[i].mode = "Aeolian"
    /\ \A i \in 1..24 :
         /\ Len(keysOut[i].scale) = 7
         /\ keysOut[i].scale[1] = keysOut[i].tonic
    /\ {PitchClass(keysOut[i].tonic) : i \in 1..12} = 0..11
    /\ {PitchClass(keysOut[i].tonic) : i \in 13..24} = 0..11

\* getAllKeys has returned: C# Ionian and A# Aeolian are the 8th and the 20th.
C15_Witness ==
  /\ Called("getAllKeys")
  /\ Len(keysOut) = 24
  /\ keysOut[8].tonic = "C#" /\ keysOut[8].mode = "Ionian"
  /\ keysOut[20].tonic = "A#" /\ keysOut[20].mode = "Aeolian"

(***************************************************************************)
(* C16: every scale in the key table uses each of the seven letter names   *)
(* A..G exactly once, and every note carries at most one accidental        *)
(* (natural, one sharp or one flat).                                       *)
(***************************************************************************)
C16_OneLetterEachOneAccidental ==
  Called("getAllKeys") =>
    \A i \in 1..Len(keysOut) :
      /\ Len(keysOut[i].scale) = 7
      /\ Range(keysOut[i].scale) \subseteq RootPool
      /\ {LetterOf(keysOut[i].scale[d]) : d \in 1..7} = 1..7

\* The table has been returned with its sharpest and its flattest scale:
\* C# Ionian has a B#, Ab Ionian a Db.
C16_Witness ==
  /\ Called("getAllKeys")
  /\ Len(keysOut) = 24
  /\ keysOut[8].scale[7] = "B#"
  /\ keysOut[12].scale[4] = "Db"

(***************************************************************************)
(* C17 as stated: getAllKeys() lists the 12 Ionian keys and then the 12    *)
(* Aeolian keys so that within each group the tonic of every key after     *)
(* the first is a perfect fifth above the tonic of the key before it, and  *)
(* the orders equal MAJOR_TONICS_ORDER and MINOR_TONICS_ORDER.             *)
(***************************************************************************)
C17_Original_CircleOfFifthsOrder ==
  Called("getAllKeys") =>
    /\ \A i \in (2..12) \cup (14..24) :
         FifthAbove(keysOut[i - 1].tonic, keysOut[i].tonic)
    /\ TonicsOf(keysOut, 1, 12) = MAJOR_TONICS_ORDER
    /\ TonicsOf(keysOut, 13, 24) = MINOR_TONICS_ORDER

(***************************************************************************)
(* C17: getAllKeys() lists the 12 Ionian keys and then the 12 Aeolian      *)
(* keys. In each group the first eight keys are in circle-of-fifths order  *)
(* (each tonic a perfect fifth above the one before) and equal the first   *)
(* eight of MAJOR_TONICS_ORDER / MINOR_TONICS_ORDER; the last four are the *)
(* last four of that tonic list in reverse, so each of them is a perfect   *)
(* fifth below the one before, and the ninth is not a fifth above the      *)
(* eighth.                                                                 *)
(***************************************************************************)
C17_SharpsUpThenFlatsDown ==
  Called("getAllKeys") =>
    /\ Len(keysOut) = 24
    /\ \A g \in {0, 12} :
         LET order == IF g = 0 THEN MAJOR_TONICS_ORDER ELSE MINOR_TONICS_ORDER
         IN  /\ \A i \in 1..8 : keysOut[g + i].tonic = order[i]
             /\ \A i \in 9..12 : keysOut[g + i].tonic = order[21 - i]
             /\ \A i \in 2..8 :
                  FifthAbove(keysOut[g + i - 1].tonic, keysOut[g + i].tonic)
             /\ \A i \in 10..12 :
                  FifthAbove(keysOut[g + i].tonic, keysOut[g + i - 1].tonic)
             /\ ~FifthAbove(keysOut[g + 8].tonic, keysOut[g + 9].tonic)

\* getAllKeys has returned: F Ionian follows C# Ionian, D Aeolian follows
\* A# Aeolian.
C17_Witness ==
  /\ Called("getAllKeys")
  /\ Len(keysOut) = 24
  /\ keysOut[8].tonic = "C#" /\ keysOut[9].tonic = "F"
  /\ keysOut[20].tonic = "A#" /\ keysOut[21].tonic = "D"



\* The roots of the chords from..to of a chord list.
RootsOf(chords, from, to) == [i \in 1..(to - from + 1) |-> chords[from + i - 1].root]

\* No element occurs twice in the sequence.
NoRepeat(s) == \A i, j \in 1..Len(s) : s[i] = s[j] => i = j

(***************************************************************************)
(* C18: buildAllTriads() returns exactly 36 chords: first 12 of quality    *)
(* major (degree 1 of each Ionian key), then 12 of quality minor (degree 1 *)
(* of each Aeolian key), then 12 of quality diminished (degree 7 of each   *)
(* Ionian key); within each quality group no root occurs twice, and every  *)
(* one of the 36 chords is diatonic in at least one key (findMatchingKeys  *)
(* of that single chord is non-empty).                                     *)
(***************************************************************************)
C18_ThirtySixTriads ==
  Called("buildAllTriads") =>
    /\ Len(triadsOut) = 36
    /\ \A i \in 1..12 :
         /\ triadsOut[i].quality = "major"
         /\ triadsOut[i].degree = 1
         /\ triadsOut[i].mode = "Ionian"
         /\ triadsOut[12 + i].quality = "minor"
         /\ triadsOut[12 + i].degree = 1
         /\ triadsOut[12 + i].mode = "Aeolian"
         /\ triadsOut[24 + i].quality = "diminished"
         /\ triadsOut[24 + i].degree = 7
         /\ triadsOut[24 + i].mode = "Ionian"
    /\ {triadsOut[i].root : i \in 1..12}
         = {ALLOWED_KEYS[k].scale[1] : k \in 1..12}
    /\ {triadsOut[i].root : i \in 13..24}
         = {ALLOWED_KEYS[k].scale[1] : k \in 13..24}
    /\ {triadsOut[i].root : i \in 25..36}
         = {ALLOWED_KEYS[k].scale[7] : k \in 1..12}
    /\ NoRepeat(RootsOf(triadsOut, 1, 12))
    /\ NoRepeat(RootsOf(triadsOut, 13, 24))
    /\ NoRepeat(RootsOf(triadsOut, 25, 36))
    /\ \A i \in 1..36 : findMatchingKeys(<<triadsOut[i]>>) # <<>>

\* buildAllTriads has returned: the first triad is C major, the 13th A minor,
\* the 25th B diminished and the last E diminished (degree 7 of F Ionian).
C18_Witness ==
  /\ Called("buildAllTriads")
  /\ Len(triadsOut) = 36
  /\ triadsOut[1] = Chord("C", "Ionian", 1, "major")
  /\ triadsOut[13] = Chord("A", "Aeolian", 1, "minor")
  /\ triadsOut[25] = Chord("B", "Ionian", 7, "diminished")
  /\ triadsOut[36] = Chord("E", "Ionian", 7, "diminished")



(***************************************************************************)
(* Shorthands of the properties of the App.                                *)
(***************************************************************************)
\* No two chords of the selection have the same (root, quality).
NoSamePairTwice(selected) ==
  \A i, j \in 1..Len(selected) : samePair(selected[i], selected[j]) => i = j

\* The chord's (root, quality) is selected.
IsSelected(selected, chord) ==
  \E i \in 1..Len(selected) : samePair(selected[i], chord)

\* The selection of the view of the last click.
ClickedSelection == IF hist.list = "byKey" THEN selectedByKey ELSE selectedFree

AppTypeOK ==
  /\ viewMode \in {"byKey", "free"}
  /\ <<selectorTonic, selectorMode>> \in ClickableSectors \cup {<<"C", "Ionian">>}
  /\ Range(selectedByKey) \subseteq Range(diatonicChords)
  /\ Range(selectedFree) \subseteq Range(buildAllTriads)
  /\ hist.run \in 0..2
  /\ hist.list \in {"none", "byKey", "free"}

(***************************************************************************)
(* C19: after any sequence of chord clicks, resets, tonic selections and   *)
(* view-mode switches, neither the By-Key selection nor the Free selection *)
(* contains two chords with the same (root, quality); a click on a chord   *)
(* whose (root, quality) is selected removes it and a click on an          *)
(* unselected chord appends it, so after two clicks in a row on the same   *)
(* chord the selection holds the chords it held before (the very same list *)
(* if the chord was not selected before).                                  *)
(***************************************************************************)
C19_ToggleNeverDuplicates ==
  /\ NoSamePairTwice(selectedByKey)
  /\ NoSamePairTwice(selectedFree)
  /\ hist.run = 1 =>
       IF IsSelected(hist.before, hist.chord)
       THEN /\ ~IsSelected(ClickedSelection, hist.chord)
            /\ Range(ClickedSelection) \subseteq Range(hist.before)
            /\ Len(ClickedSelection) = Len(hist.before) - 1
       ELSE ClickedSelection = Append(hist.before, hist.chord)
  /\ hist.run = 2 =>
       /\ Range(ClickedSelection) = Range(hist.before)
       /\ Len(ClickedSelection) = Len(hist.before)
       /\ ~IsSelected(hist.before, hist.chord) => ClickedSelection = hist.before

\* A chord that was selected together with another one has been clicked
\* twice in a row in the By Key view, and a chord is selected in the Free
\* view as well.
C19_Witness ==
  /\ hist.run = 2
  /\ hist.list = "byKey"
  /\ Len(hist.before) = 2
  /\ IsSelected(hist.before, hist.chord)
  /\ IsSelected(selectedByKey, hist.chord)
  /\ selectedFree # <<>>



(***************************************************************************)
(* C20: the key table is immutable at run time: no sequence of calls and   *)
(* no modification by a caller of a value a call returned (the returned    *)
(* key array, a returned key's scale array, a returned chord list, a       *)
(* returned scale) changes what a later call returns: getAllKeys returns   *)
(* the 24 keys as they were defined, buildScale the defined scale of the   *)
(* key and buildDiatonicChords the chords on the defined scale.            *)
(***************************************************************************)
C20_TableImmutable ==
  /\ Called("getAllKeys") => keysOut = ALLOWED_KEYS
  /\ (Called("buildScale") /\ ~Called("scale written"))
       => scaleOut = buildScale(keyArg.tonic, keyArg.mode)
  /\ (Called("buildDiatonicChords") /\ ~Called("chords written"))
       => chordsOut = buildDiatonicChords(keyArg)



(***************************************************************************)
(* C21: the By-Key and the Free selection are independent: a chord click   *)
(* or a reset in one view leaves the other view's selection unchanged, a   *)
(* switch of the view changes neither selection, a tonic selection on the  *)
(* circle empties the By-Key selection and leaves the Free selection, and  *)
(* the displayed results are always findMatchingKeys of the selection of   *)
(* the current view.                                                       *)
(***************************************************************************)
C21_SelectionsIndependent ==
  /\ [](results = findMatchingKeys(IF viewMode = "byKey" THEN selectedByKey
                                   ELSE selectedFree))
  /\ [][ /\ (viewMode = "byKey" /\ viewMode' = "byKey")
              => selectedFree' = selectedFree
         /\ (viewMode = "free" /\ viewMode' = "free")
              => selectedByKey' = selectedByKey
         /\ viewMode' # viewMode
              => (selectedByKey' = selectedByKey /\ selectedFree' = selectedFree)
         /\ <<selectorTonic, selectorMode>>' # <<selectorTonic, selectorMode>>
              => (selectedByKey' = <<>> /\ selectedFree' = selectedFree)
       ]_allVars

\* The Free view is shown with a selection of its own that narrows the
\* results, while the By Key view keeps another selection.
C21_Witness ==
  /\ viewMode = "free"
  /\ selectedFree # <<>>
  /\ selectedByKey # <<>>
  /\ Pairs(selectedByKey) # Pairs(selectedFree)
  /\ results = findMatchingKeys(selectedFree)
  /\ findMatchingKeys(selectedFree) # findMatchingKeys(selectedByKey)



(***************************************************************************)
(* C26: in the Free view, a click on a chip of the triad table that        *)
(* selects the triad also plays it (PianoPlayer.playChord is called with   *)
(* the triad's root, third and fifth), and a click that deselects the      *)
(* triad plays nothing: after a click in the Free view the notes passed to *)
(* playChord are the triad of the clicked chord when that chord is now     *)
(* selected, and none when it is not.                                      *)
(***************************************************************************)
C26_SelectingTriadPlaysIt ==
  (hist.list = "free" /\ viewMode = "free")
    => played = (IF IsSelected(selectedFree, hist.chord)
                 THEN chipTriad(hist.chord)
                 ELSE <<>>)

(***************************************************************************)
(* Shorthands of the properties of the player.                             *)
(***************************************************************************)
PlayerTypeOK ==
  /\ player.muted \in BOOLEAN
  /\ player.audioCtx \in {"null", "context"}
  /\ player.instrument \in {"null", "piano"}
  /\ player.masterGain \in {"null", "gain"}
  /\ player.loading \in {"null", "pending", "fulfilled"}
  /\ player.isRecreating \in BOOLEAN
  /\ player.sequenceToken \in 0..(2 * MaxInputs)
  /\ browser.visibilityState \in {"visible", "hidden"}
  /\ browser.state \in {"none", "running", "suspended", "interrupted",
                        "closed"}
  /\ \A i \in 1..Len(browser.tasks) :
       browser.tasks[i].kind \in {"sequence", "chordStop", "stopAll",
                                  "resumeWait", "close", "recreate"}
  /\ heard.inputs \in 0..MaxInputs
  /\ heard.sounding \subseteq 1..heard.plays
  /\ heard.recovery \in {"none", "started", "finished"}

\* A step starts the notes of a chord: instrument.play is called.
ChordStarts == heard'.plays # heard.plays

\* A step starts a chord of a sequence.
SequenceChordStarts == heard'.lastStart # heard.lastStart

\* A chord of a scheduled sequence is still waiting to start.
ChordWaiting ==
  \E i \in 1..Len(browser.tasks) : browser.tasks[i].kind = "sequence"

\* The player is idle: no chord playChord started is still sounding (its
\* stop timeout has not run and it was not stopped), and no chord of a
\* scheduled sequence is waiting to start.
PlayerIsIdle == heard.sounding = {} /\ ~ChordWaiting

\* A step in which the document becomes hidden with a running context.
BecomesHiddenWhileRunning ==
  /\ browser.visibilityState = "visible"
  /\ browser'.visibilityState = "hidden"
  /\ player.audioCtx # "null"
  /\ browser.state = "running"

(***************************************************************************)
(* C22: while the player is muted no note is started: no step in which     *)
(* instrument.play is called is taken with the player muted, be it by a    *)
(* call of playChord or playSequence made while muted, by a call made      *)
(* before the muting that was awaiting ensureLoaded, or by a chord of a    *)
(* sequence scheduled before the muting.                                   *)
(***************************************************************************)
C22_NothingStartsWhileMuted ==
  [][ChordStarts => ~player.muted /\ ~player'.muted]_allVars

(***************************************************************************)
(* C23: once the scheduled sequence is cancelled (by stopSequence, by      *)
(* setMuted(true), or by a later playSequence that reaches its scheduling  *)
(* step), no chord of it starts any more: a chord of a sequence that       *)
(* starts is a chord of the sequence scheduled last, no stopSequence and   *)
(* no setMuted(true) was called since that sequence was scheduled, and     *)
(* the chords of a sequence start in list order.                           *)
(***************************************************************************)
C23_OnlyScheduledSequenceStarts ==
  [][SequenceChordStarts =>
       /\ heard'.lastStart.seq = heard.scheduled
       /\ ~heard.cancelled
       /\ heard.lastStart.seq = heard'.lastStart.seq
            => heard'.lastStart.index > heard.lastStart.index]_allVars

\* A sequence of two chords or more was cancelled after its first chord had
\* started; every timeout has run since, a later sequence has not been
\* scheduled, and the player is not muted.
C23_Witness ==
  /\ heard.cancelled
  /\ heard.scheduled > 0
  /\ heard.lastStart = [seq |-> heard.scheduled, index |-> 1]
  /\ MaxChords > 1
  /\ browser.tasks = <<>>
  /\ ~player.muted

(***************************************************************************)
(* C24: after a resume that did not leave the context running, the player  *)
(* closes the context and, once the recreate timeout has run and the       *)
(* instrument is loaded, holds a context and an instrument again and is    *)
(* not recreating any more: when the callback of the recreate timeout has  *)
(* run to its end, audioCtx and instrument are not null and isRecreating   *)
(* is false.                                                               *)
(***************************************************************************)
C24_RecoversAfterFailedResume ==
  heard.recovery = "finished"
    => /\ player.audioCtx # "null"
       /\ player.instrument # "null"
       /\ ~player.isRecreating

(***************************************************************************)
(* C25: when the document becomes hidden while the context is running,     *)
(* the context is suspended if and only if the player is idle, that is, no *)
(* chord started by playChord is still sounding and no chord of a          *)
(* scheduled sequence is waiting to start.                                 *)
(***************************************************************************)
C25_SuspendedWhenHiddenIffIdle ==
  [][BecomesHiddenWhileRunning
       => (browser'.state = "suspended" <=> PlayerIsIdle)]_allVars

(***************************************************************************)
(* Shorthands of the properties of scales as pitch classes.                *)
(***************************************************************************)
\* The pitch classes of a list of notes.
PitchClasses(notes) == [i \in 1..Len(notes) |-> PitchClass(notes[i])]

\* The semitone steps between consecutive notes of a 7-note scale, and from
\* the seventh back to the first.
StepsOf(scale) ==
  [i \in 1..7 |->
     (PitchClass(scale[(i % 7) + 1]) - PitchClass(scale[i]) + 12) % 12]

(***************************************************************************)
(* C27 as stated: every scale of the key table follows the semitone        *)
(* pattern of its mode (2,2,1,2,2,2,1 for Ionian, 2,1,2,2,1,2,2 for        *)
(* Aeolian), and the table-based buildScale agrees in pitch classes with   *)
(* the interval-based buildScale for all 24 keys.                          *)
(***************************************************************************)
C27_Original_AgreeForAllKeys ==
  (IsTableKey /\ Called("buildScale") /\ Called("intervalBuildScale")) =>
    /\ StepsOf(scaleOut) =
         IF keyArg.mode = "Ionian" THEN <<2, 2, 1, 2, 2, 2, 1>>
         ELSE <<2, 1, 2, 2, 1, 2, 2>>
    /\ PitchClasses(scaleOut) = PitchClasses(intervalScaleOut)

(***************************************************************************)
(* C27: every scale of the key table follows the semitone pattern of its   *)
(* mode (2,2,1,2,2,2,1 for Ionian, 2,1,2,2,1,2,2 for Aeolian).  The        *)
(* table-based buildScale agrees in pitch classes with the interval-based  *)
(* buildScale for the 21 keys whose tonic is one of the 12 NOTES; for the  *)
(* three keys whose tonic is spelled with a flat (Bb, Eb, Ab Ionian) the   *)
(* interval-based scale is the tonic followed by C#, D#, E, F#, G#, A#,    *)
(* which differs in pitch class from the table's scale at every degree     *)
(* from the second on.                                                     *)
(***************************************************************************)
C27_AgreeForTonicsInNOTES ==
  (IsTableKey /\ Called("buildScale")) =>
    /\ StepsOf(scaleOut) =
         IF keyArg.mode = "Ionian" THEN <<2, 2, 1, 2, 2, 2, 1>>
         ELSE <<2, 1, 2, 2, 1, 2, 2>>
    /\ Called("intervalBuildScale") =>
         IF keyArg.tonic \in Range(NOTES)
         THEN PitchClasses(scaleOut) = PitchClasses(intervalScaleOut)
         ELSE /\ keyArg.mode = "Ionian"
              /\ keyArg.tonic \in {"Bb", "Eb", "Ab"}
              /\ intervalScaleOut =
                   <<keyArg.tonic, "C#", "D#", "E", "F#", "G#", "A#">>
              /\ \A i \in 2..7 :
                   PitchClass(intervalScaleOut[i]) # PitchClass(scaleOut[i])

\* Both functions have built the scale of D# Aeolian, the table with its E#
\* and the intervals with their F.
C27_Witness ==
  /\ IsTableKey
  /\ keyArg.tonic = "D#"
  /\ Called("buildScale")
  /\ Called("intervalBuildScale")
  /\ scaleOut[2] = "E#"
  /\ intervalScaleOut[2] = "F"



\* The semitones from note a up to note b.
SemitonesUp(a, b) == (PitchClass(b) - PitchClass(a) + 12) % 12

(***************************************************************************)
(* C28: the fixed quality patterns agree with the notes that are played:   *)
(* for every key of the table and every degree d, the triad stacked in     *)
(* thirds on the scale (scale[d-1], scale[(d+1) mod 7], scale[(d+3) mod    *)
(* 7], as computed for playback) has pitch-class intervals 4 then 3        *)
(* semitones when the chord's quality is major, 3 then 4 when minor, and   *)
(* 3 then 3 when diminished.                                               *)
(***************************************************************************)
C28_QualitiesAgreeWithTriads ==
  (IsTableKey /\ Called("buildDiatonicChords")) =>
    \A d \in 1..Len(chordsOut) :
      LET triad == triadOf(chordsOut, chordsOut[d])
          lower == SemitonesUp(triad[1], triad[2])
          upper == SemitonesUp(triad[2], triad[3])
      IN  /\ triad = <<keyArg.scale[d], keyArg.scale[((d + 1) % 7) + 1],
                       keyArg.scale[((d + 3) % 7) + 1]>>
          /\ chordsOut[d].quality = "major" => (lower = 4 /\ upper = 3)
          /\ chordsOut[d].quality = "minor" => (lower = 3 /\ upper = 4)
          /\ chordsOut[d].quality = "diminished" => (lower = 3 /\ upper = 3)

\* The chords of C# Ionian have been built: its seventh chip plays B#, D#
\* and F#, a diminished triad that wraps around the scale.
C28_Witness ==
  /\ IsTableKey
  /\ keyArg.tonic = "C#"
  /\ keyArg.mode = "Ionian"
  /\ Called("buildDiatonicChords")
  /\ Len(chordsOut) = 7
  /\ chordsOut[7].quality = "diminished"
  /\ triadOf(chordsOut, chordsOut[7]) = <<"B#", "D#", "F#">>



(***************************************************************************)
(* C29: narrowing is monotone: for every selection S and every chord c,    *)
(* every key in findMatchingKeys(S with c added) is also in                *)
(* findMatchingKeys(S); so adding a chord never adds a matching key and    *)
(* removing a chord never removes one.                                     *)
(***************************************************************************)
C29_NarrowingMonotone ==
  (Returned /\ variation = "remove") =>
    /\ Range(KeysOf(prevResults)) \subseteq Range(KeysOf(results))
    /\ Len(prevResults) <= Len(results)

\* Two chords that share some keys were selected; without one of them more
\* keys match.
C29_Witness ==
  /\ Returned
  /\ variation = "remove"
  /\ Len(prevSelection) = 2
  /\ prevResults # <<>>
  /\ Len(prevResults) < Len(results)



(***************************************************************************)
(* C30: in By-Key mode the results are never empty: after any sequence of  *)
(* tonic selections on the circle, chord-chip clicks and resets, the key   *)
(* selected on the circle (selectorTonic, selectorMode) is a key of the    *)
(* table, every chord of the By-Key selection is diatonic in it, and that  *)
(* key is among findMatchingKeys(By-Key selection).                        *)
(***************************************************************************)
C30_SelectedKeyAlwaysMatches ==
  /\ \A i \in 1..12 :
       /\ InTable(MAJOR_TONICS_ORDER[i], "Ionian")
       /\ InTable(MINOR_TONICS_ORDER[i], "Aeolian")
  /\ InTable(selectorTonic, selectorMode)
  /\ \A c \in Range(selectedByKey) :
       \E d \in Range(buildScale(selectorTonic, selectorMode)) :
         /\ c.root = d
         /\ <<c.root, c.quality>>
              \in DiatonicPairs[KeyIndex(selectorTonic, selectorMode)]
  /\ HasKey(findMatchingKeys(selectedByKey), selectorTonic, selectorMode)
  /\ viewMode = "byKey" =>
       (results # <<>> /\ HasKey(results, selectorTonic, selectorMode))

\* E Aeolian is selected on the circle and two of its chips are selected,
\* which leaves fewer than the 24 keys, E Aeolian among them.
C30_Witness ==
  /\ viewMode = "byKey"
  /\ selectorTonic = "E"
  /\ selectorMode = "Aeolian"
  /\ Len(selectedByKey) = 2
  /\ Len(results) < 24
  /\ HasKey(results, "E", "Aeolian")


====
